---- MODULE Spec2Model ----
(***************************************************************************)
(* Model of ceci's MemoryMonitor (src/ceci/monitor.py).                    *)
(*                                                                         *)
(* Two parts:                                                              *)
(*  - the process-tree aggregator get_total_rss_gb, a function of what the *)
(*    operating system answers to memory_info() and children();            *)
(*  - the monitor object shared by the sampling thread (_run / log) and    *)
(*    the threads that call stop(), one atomic step per statement that     *)
(*    reads or writes the shared fields.                                   *)
(*                                                                         *)
(* Gigabyte values are Python floats obtained by true division of a byte   *)
(* count by 1e9; they are kept here as exact fractions <<num, den>> in     *)
(* lowest terms.                                                           *)
(***************************************************************************)
EXTENDS Integers, Sequences, FiniteSets, TLC

VARIABLES
    \* fields of the MemoryMonitor object
    should_continue, interval, process, max_total_rss,
    \* the runtime: is the main thread alive
    mainAlive,
    \* the sampling thread: position in _run / log and the local of log
    spc, total_rss,
    \* the threads calling stop(): position and the local final_total
    stpc, final_total,
    \* standard output, by producer
    reports, samplerSummary, stopPrinted,
    \* observation of the run (history)
    samplerSamples, maxSeen, sleepsAfterFlag, wokeDead, lateLogs,
    \* the exception that ended the sampling thread, if any
    raisedErr,
    \* aggregator harness: the operating system's answers and the result
    aggIn, aggOut, aggLine

monitorVars == <<should_continue, interval, process, max_total_rss>>
samplerVars == <<spc, total_rss>>
stopVars    == <<stpc, final_total>>
outVars     == <<reports, samplerSummary, stopPrinted>>
histVars    == <<samplerSamples, maxSeen, sleepsAfterFlag, wokeDead, lateLogs,
                 raisedErr>>
aggVars     == <<aggIn, aggOut, aggLine>>
vars == <<monitorVars, mainAlive, samplerVars, stopVars, outVars, histVars, aggVars>>

----------------------------------------------------------------------------
(* Bounds *)

\* descendants-to-be: process ids 1..MaxKids next to the root
MaxKids == 2
\* resident sizes are 1..MaxRssUnits units of RssUnit bytes
MaxRssUnits == 3
\* periodic samples the sampling thread may start
MaxSamples == 2
\* threads that call stop()
NumStoppers == 1

----------------------------------------------------------------------------
(* Numbers *)

\* total_rss / 1e9
BytesPerGB == 1000000000
\* interval=30
DefaultInterval == 30
\* the handle psutil.Process() of the monitored root
Root == 0

RssUnit == BytesPerGB \div 8

RECURSIVE GCD(_, _)
GCD(a, b) == IF b = 0 THEN a ELSE GCD(b, a % b)

\* variant: binary gigabytes, 2^30 bytes
DivBinary(a, b) ==
    LET g == GCD(a, 1073741824) IN <<a \div g, 1073741824 \div g>>

\* a / b as a float, a >= 0 and b > 0
Div(a, b) == LET g == GCD(a, b) IN <<a \div g, b \div g>>

\* the float 0.0
Zero == <<0, 1>>

\* x > y on floats
GT(x, y) == x[1] * y[2] > y[1] * x[2]

GE(x, y) == ~GT(y, x)

FMax(x, y) == IF GT(y, x) THEN y ELSE x

----------------------------------------------------------------------------
(* The operating system as psutil shows it *)

Kids  == 1..MaxKids
Procs == {Root} \cup Kids
\* parent of a process that is not in the root's tree
Outside == 0 - 1

\* exceptions the code names, and any other exception
Caught == {"NoSuchProcess", "AccessDenied"}
Errors == Caught \cup {"OtherError"}

RssValues == {k * RssUnit : k \in 1..MaxRssUnits}

\* outcome of memory_info(): a pmem with its rss, or an exception
Pmem(n) == [err |-> "ok", rss |-> n]
Fails(e) == [err |-> e, rss |-> 0]
MemResults == {Pmem(n) : n \in RssValues} \cup {Fails(e) : e \in Errors}

\* parent[k] for each other process: an earlier process or outside the tree
ParentMaps == {f \in [Kids -> (Procs \cup {Outside})] : \A k \in Kids : f[k] < k}

\* what the system answers during one call of get_total_rss_gb:
\*   mem[p]  memory_info() of p,  enum  outcome of children(),
\*   parent  the process table at the time of children()
AggInputs == [parent : ParentMaps, mem : [Procs -> MemResults],
              enum : {"ok"} \cup Errors]

RECURSIVE IsDescendant(_, _)
IsDescendant(parent, k) ==
    \/ parent[k] = Root
    \/ parent[k] \in Kids /\ IsDescendant(parent, parent[k])

RECURSIVE ListFrom(_, _)
ListFrom(S, k) ==
    IF k > MaxKids THEN <<>>
    ELSE (IF k \in S THEN <<k>> ELSE <<>>) \o ListFrom(S, k + 1)

\* variant: children() without recursive=True
ChildrenDirectOnly(parent) == ListFrom({k \in Kids : parent[k] = Root}, 1)

\* p.children(recursive=True) for p the root: every descendant, once
children(parent) == ListFrom({k \in Kids : IsDescendant(parent, k)}, 1)

Returned(v) == [raised |-> FALSE, val |-> v]
Raised == [raised |-> TRUE, val |-> Zero]

\* variant: the loop ends at the first child that cannot be queried
RECURSIVE SumChildrenAbort(_, _, _, _)
SumChildrenAbort(in, kids, i, total) ==
    IF i > Len(kids) THEN Returned(total)
    ELSE LET m == in.mem[kids[i]] IN
         IF m.err = "ok" THEN SumChildrenAbort(in, kids, i + 1, total + m.rss)
         ELSE IF m.err \in Caught THEN Returned(total)
         ELSE Raised

\* the for loop over the children, from position i with the running total
RECURSIVE SumChildren(_, _, _, _)
SumChildren(in, kids, i, total) ==
    IF i > Len(kids) THEN Returned(total)
    ELSE LET m == in.mem[kids[i]] IN
         IF m.err = "ok" THEN SumChildren(in, kids, i + 1, total + m.rss)
         ELSE IF m.err \in Caught THEN SumChildren(in, kids, i + 1, total)
         ELSE Raised

\* variant: the outer handler names NoSuchProcess only
get_total_rss_gb_DeniedUncaught(in) ==
    LET mem == in.mem[Root] IN
    IF mem.err = "NoSuchProcess" THEN Returned(Zero)
    ELSE IF mem.err # "ok" THEN Raised
    ELSE IF in.enum \in Caught THEN Returned(Div(mem.rss, BytesPerGB))
    ELSE IF in.enum # "ok" THEN Raised
    ELSE LET s == SumChildren(in, children(in.parent), 1, mem.rss) IN
         IF s.raised THEN Raised ELSE Returned(Div(s.val, BytesPerGB))

\* variant: a failed children() gives up the whole sample
get_total_rss_gb_EnumZero(in) ==
    LET mem == in.mem[Root] IN
    IF mem.err \in Caught THEN Returned(Zero)
    ELSE IF mem.err # "ok" THEN Raised
    ELSE IF in.enum \in Caught THEN Returned(Zero)
    ELSE IF in.enum # "ok" THEN Raised
    ELSE LET s == SumChildren(in, children(in.parent), 1, mem.rss) IN
         IF s.raised THEN Raised ELSE Returned(Div(s.val, BytesPerGB))

\* MemoryMonitor.get_total_rss_gb(p): the value returned, or raised
get_total_rss_gb(in) ==
    LET mem == in.mem[Root] IN
    IF mem.err \in Caught THEN Returned(Zero)
    ELSE IF mem.err # "ok" THEN Raised
    ELSE IF in.enum \in Caught THEN Returned(Div(mem.rss, BytesPerGB))
    ELSE IF in.enum # "ok" THEN Raised
    ELSE LET s == SumChildren(in, children(in.parent), 1, mem.rss) IN
         IF s.raised THEN Raised ELSE Returned(Div(s.val, BytesPerGB))

\* 10 * r / d as <<digit, remainder>> for r < d, in machine integers:
\* with d = 10 * dq + dr, 10 * r >= j * d iff r - j * dq >= j * dr / 10
Times10(d, r) ==
    LET dq == d \div 10
        dr == d % 10
        p  == CHOOSE p \in (0..9) \X {r} :
                  /\ p[2] - p[1] * dq >= (p[1] * dr + 9) \div 10
                  /\ p[1] < 9 =>
                        p[2] - (p[1] + 1) * dq < ((p[1] + 1) * dr + 9) \div 10
    IN  <<p[1], 10 * (p[2] - p[1] * dq) - p[1] * dr>>

RECURSIVE BitLen(_)
BitLen(k) == IF k = 0 THEN 0 ELSE 1 + BitLen(k \div 2)

\* 2^k modulo d, for d small enough that d * d * 2 is a machine integer
RECURSIVE Pow2Mod(_, _)
Pow2Mod(k, d) ==
    IF k = 0 THEN 1 % d
    ELSE LET h == Pow2Mod(k \div 2, d) IN
         (h * h * (IF k % 2 = 1 THEN 2 ELSE 1)) % d

\* the rest of x beyond the 53 significant binary digits of a double, in
\* units of 1/d of the last digit; used where x lies half way between two
\* thousandths, so that its denominator divides 2000
DoubleRest(x) ==
    LET d  == x[2]
        ip == x[1] \div d
        r  == x[1] % d
        \* binary digits after the point that the 53 reach
        k  == IF ip > 0 THEN 53 - BitLen(ip)
              ELSE 52 + CHOOSE z \in 1..12 :
                          r * 2^z >= d /\ r * 2^(z - 1) < d
    IN  (r * Pow2Mod(k, d)) % d

\* f"{x:.3f}": the number of thousandths printed. The digits are those of
\* the double nearest to x: where x lies half way between two
\* thousandths, a double that holds x exactly is rounded half to even,
\* and otherwise the side on which the double lies decides
Fmt3(x) ==
    LET d  == x[2]
        t1 == Times10(d, x[1] % d)
        t2 == Times10(d, t1[2])
        t3 == Times10(d, t2[2])
        q  == 1000 * (x[1] \div d) + 100 * t1[1] + 10 * t2[1] + t3[1]
        r3 == t3[2]
    IN  IF 2 * r3 > d THEN q + 1
        ELSE IF 2 * r3 < d THEN q
        ELSE LET rest == DoubleRest(x) IN
             IF rest = 0 THEN q + (q % 2)
             ELSE IF 2 * rest > d THEN q + 1
             ELSE q

\* the report line of log, as far as it states resident sizes:
\* "Physical mem: {rss:.3f} GB   Total (with children): {total_rss:.3f} GB"
\* with rss = mem.rss / 1e9
LogLine(mem, total) ==
    [printed |-> TRUE, rss |-> Fmt3(Div(mem.rss, BytesPerGB)),
     total |-> Fmt3(total)]

NoLine == [printed |-> FALSE, rss |-> 0, total |-> 0]

----------------------------------------------------------------------------
(* The monitor *)

Stoppers == 1..NumStoppers

\* the tree the running monitor watches: the root and a chain of children,
\* of which the first may be alive; what one sample can meet
MonitorInputs ==
    {[parent |-> [k \in Kids |-> k - 1],
      mem    |-> [p \in Procs |-> IF p = Root THEN r
                                  ELSE IF p = 1 THEN c
                                  ELSE Fails("NoSuchProcess")],
      enum   |-> "ok"] :
        r \in {Pmem(RssUnit), Fails("NoSuchProcess"), Fails("OtherError")},
        c \in {Pmem(RssUnit), Fails("NoSuchProcess")}}

NotCalled == [called |-> FALSE, raised |-> FALSE, val |-> Zero]

\* MemoryMonitor.__init__
InitMonitor ==
    /\ should_continue = TRUE
    /\ interval = DefaultInterval
    /\ process = Root
    /\ max_total_rss = Zero
    /\ mainAlive = TRUE
    /\ spc = "created"
    /\ total_rss = Zero
    /\ stpc = [s \in Stoppers |-> "idle"]
    /\ final_total = [s \in Stoppers |-> Zero]
    /\ reports = 0
    /\ samplerSummary = <<>>
    /\ stopPrinted = [s \in Stoppers |-> <<>>]
    /\ samplerSamples = 0
    /\ maxSeen = Zero
    /\ sleepsAfterFlag = 0
    /\ wokeDead = FALSE
    /\ lateLogs = 0
    /\ raisedErr = "none"

Init ==
    /\ InitMonitor
    /\ aggIn = CHOOSE in \in MonitorInputs : TRUE
    /\ aggOut = NotCalled
    /\ aggLine = NoLine

\* start_in_thread: thread.start() on monitor._run
Start ==
    /\ spc = "created"
    /\ spc' = "alive"
    /\ UNCHANGED <<monitorVars, mainAlive, total_rss, stopVars, outVars,
                   histVars, aggVars>>

\* the main thread ends
MainEnds ==
    /\ spc # "created"
    /\ mainAlive
    /\ mainAlive' = FALSE
    /\ UNCHANGED <<monitorVars, samplerVars, stopVars, outVars, histVars,
                   aggVars>>

(* _run *)

\* variant: the loop condition does not look at the main thread
RunCheckAliveIgnored ==
    /\ spc = "alive"
    /\ spc' = "flag"
    /\ UNCHANGED <<monitorVars, mainAlive, total_rss, stopVars, outVars,
                   histVars, aggVars>>

\* while threading.main_thread().is_alive():
RunCheckAlive ==
    /\ spc = "alive"
    /\ spc' = IF mainAlive THEN "flag" ELSE "exit"
    /\ UNCHANGED <<monitorVars, mainAlive, total_rss, stopVars, outVars,
                   histVars, aggVars>>

\* variant: the loop body does not look at the flag
RunCheckFlagNoBreak ==
    /\ spc = "flag"
    /\ samplerSamples < MaxSamples
    /\ spc' = "log_mem"
    /\ UNCHANGED <<monitorVars, mainAlive, total_rss, stopVars, outVars,
                   histVars, aggVars>>

\* variant: the loop takes the stop request and re-arms the flag
RunCheckFlagResets ==
    /\ spc = "flag"
    /\ should_continue => samplerSamples < MaxSamples
    /\ spc' = IF should_continue THEN "log_mem" ELSE "exit"
    /\ should_continue' = TRUE
    /\ UNCHANGED <<interval, process, max_total_rss, mainAlive, total_rss,
                   stopVars, outVars, histVars, aggVars>>

\* if not self.should_continue: break
RunCheckFlag ==
    /\ spc = "flag"
    /\ should_continue => samplerSamples < MaxSamples
    /\ spc' = IF should_continue THEN "log_mem" ELSE "exit"
    /\ UNCHANGED <<monitorVars, mainAlive, total_rss, stopVars, outVars,
                   histVars, aggVars>>

\* log: mem = p.memory_info(), not guarded
LogMemInfo ==
    /\ spc = "log_mem"
    /\ \E m \in MemResults :
          /\ spc' = IF m.err = "ok" THEN "log_total" ELSE "crashed"
          /\ raisedErr' = IF m.err = "ok" THEN raisedErr ELSE m.err
    /\ lateLogs' = IF \E s \in Stoppers : stpc[s] = "returned"
                   THEN lateLogs + 1 ELSE lateLogs
    /\ UNCHANGED <<monitorVars, mainAlive, total_rss, stopVars, outVars,
                   samplerSamples, maxSeen, sleepsAfterFlag, wokeDead,
                   aggVars>>

\* log: total_rss = self.get_total_rss_gb(p)
LogSample ==
    /\ spc = "log_total"
    /\ \E in \in MonitorInputs :
          LET r == get_total_rss_gb(in) IN
          IF r.raised
          THEN /\ spc' = "crashed"
               /\ raisedErr' = "OtherError"
               /\ UNCHANGED <<total_rss, samplerSamples, maxSeen>>
          ELSE /\ spc' = "log_cmp"
               /\ total_rss' = r.val
               /\ samplerSamples' = samplerSamples + 1
               /\ maxSeen' = FMax(maxSeen, r.val)
               /\ UNCHANGED raisedErr
    /\ UNCHANGED <<monitorVars, mainAlive, stopVars, outVars,
                   sleepsAfterFlag, wokeDead, lateLogs, aggVars>>

\* variant: the peak is assigned without the comparison
LogCompareAlwaysWrites ==
    /\ spc = "log_cmp"
    /\ spc' = "log_write"
    /\ UNCHANGED <<monitorVars, mainAlive, total_rss, stopVars, outVars,
                   histVars, aggVars>>

\* log: if total_rss > self.max_total_rss:
LogCompare ==
    /\ spc = "log_cmp"
    /\ spc' = IF GT(total_rss, max_total_rss) THEN "log_write" ELSE "log_print"
    /\ UNCHANGED <<monitorVars, mainAlive, total_rss, stopVars, outVars,
                   histVars, aggVars>>

\* log: self.max_total_rss = total_rss
LogWrite ==
    /\ spc = "log_write"
    /\ max_total_rss' = total_rss
    /\ spc' = "log_print"
    /\ UNCHANGED <<should_continue, interval, process, mainAlive, total_rss,
                   stopVars, outVars, histVars, aggVars>>

\* log: print of the report line (its text is LogLine; counted here)
LogPrint ==
    /\ spc = "log_print"
    /\ reports' = reports + 1
    /\ spc' = "sleep"
    /\ UNCHANGED <<monitorVars, mainAlive, total_rss, stopVars,
                   samplerSummary, stopPrinted, histVars, aggVars>>

\* time.sleep(self.interval) begins
RunSleep ==
    /\ spc = "sleep"
    /\ spc' = "sleeping"
    /\ sleepsAfterFlag' = IF should_continue THEN sleepsAfterFlag
                          ELSE sleepsAfterFlag + 1
    /\ UNCHANGED <<monitorVars, mainAlive, total_rss, stopVars, outVars,
                   samplerSamples, maxSeen, wokeDead, lateLogs, raisedErr,
                   aggVars>>

\* time.sleep returns after the interval
RunWake ==
    /\ spc = "sleeping"
    /\ spc' = "alive"
    /\ wokeDead' = (wokeDead \/ ~mainAlive)
    /\ UNCHANGED <<monitorVars, mainAlive, total_rss, stopVars, outVars,
                   samplerSamples, maxSeen, sleepsAfterFlag, lateLogs,
                   raisedErr, aggVars>>

\* variant: the summary is printed without looking at the peak
RunExitAlwaysPrints ==
    /\ spc = "exit"
    /\ spc' = "exit_print"
    /\ UNCHANGED <<monitorVars, mainAlive, total_rss, stopVars, outVars,
                   histVars, aggVars>>

\* after the loop: if self.max_total_rss > 0:
RunExitTest ==
    /\ spc = "exit"
    /\ spc' = IF GT(max_total_rss, Zero) THEN "exit_print" ELSE "done"
    /\ UNCHANGED <<monitorVars, mainAlive, total_rss, stopVars, outVars,
                   histVars, aggVars>>

\* after the loop: print of the summary line, which reads the peak again
RunExitPrint ==
    /\ spc = "exit_print"
    /\ samplerSummary' = Append(samplerSummary, Fmt3(max_total_rss))
    /\ spc' = "done"
    /\ UNCHANGED <<monitorVars, mainAlive, total_rss, stopVars, reports,
                   stopPrinted, histVars, aggVars>>

RunExit == RunExitTest \/ RunExitPrint

Sampler ==
    \/ RunCheckAlive \/ RunCheckFlag
    \/ LogMemInfo \/ LogSample \/ LogCompare \/ LogWrite \/ LogPrint
    \/ RunSleep \/ RunWake \/ RunExit

(* stop *)

\* self.should_continue = False
StopSetFlag(s) ==
    /\ spc # "created"
    /\ stpc[s] = "idle"
    /\ should_continue' = FALSE
    /\ stpc' = [stpc EXCEPT ![s] = "sample"]
    /\ UNCHANGED <<interval, process, max_total_rss, mainAlive, samplerVars,
                   final_total, outVars, histVars, aggVars>>

\* final_total = self.get_total_rss_gb(self.process)
StopSample(s) ==
    /\ stpc[s] = "sample"
    /\ \E in \in MonitorInputs :
          LET r == get_total_rss_gb(in) IN
          IF r.raised
          THEN /\ stpc' = [stpc EXCEPT ![s] = "raised"]
               /\ UNCHANGED <<final_total, maxSeen>>
          ELSE /\ stpc' = [stpc EXCEPT ![s] = "cmp"]
               /\ final_total' = [final_total EXCEPT ![s] = r.val]
               /\ maxSeen' = FMax(maxSeen, r.val)
    /\ UNCHANGED <<monitorVars, mainAlive, samplerVars, outVars,
                   samplerSamples, sleepsAfterFlag, wokeDead, lateLogs,
                   raisedErr, aggVars>>

\* if final_total > self.max_total_rss:
StopCompare(s) ==
    /\ stpc[s] = "cmp"
    /\ stpc' = [stpc EXCEPT ![s] =
                  IF GT(final_total[s], max_total_rss) THEN "write" ELSE "print"]
    /\ UNCHANGED <<monitorVars, mainAlive, samplerVars, final_total, outVars,
                   histVars, aggVars>>

\* self.max_total_rss = final_total
StopWrite(s) ==
    /\ stpc[s] = "write"
    /\ max_total_rss' = final_total[s]
    /\ stpc' = [stpc EXCEPT ![s] = "print"]
    /\ UNCHANGED <<should_continue, interval, process, mainAlive, samplerVars,
                   final_total, outVars, histVars, aggVars>>

\* variant: stop() joins the sampling thread before it reports
StopPrintAfterJoin(s) ==
    /\ spc \in {"done", "crashed"}
    /\ stpc[s] = "print"
    /\ stopPrinted' = [stopPrinted EXCEPT ![s] = <<Fmt3(max_total_rss)>>]
    /\ stpc' = [stpc EXCEPT ![s] = "returned"]
    /\ UNCHANGED <<monitorVars, mainAlive, samplerVars, final_total, reports,
                   samplerSummary, histVars, aggVars>>

\* variant: stop() leaves the summary to the sampling thread when that
\* one has printed it already
StopPrintDeduplicated(s) ==
    /\ stpc[s] = "print"
    /\ stopPrinted' = IF samplerSummary # <<>> THEN stopPrinted
                      ELSE [stopPrinted EXCEPT ![s] = <<Fmt3(max_total_rss)>>]
    /\ stpc' = [stpc EXCEPT ![s] = "returned"]
    /\ UNCHANGED <<monitorVars, mainAlive, samplerVars, final_total, reports,
                   samplerSummary, histVars, aggVars>>

\* print of the summary line, then return
StopPrint(s) ==
    /\ stpc[s] = "print"
    /\ stopPrinted' = [stopPrinted EXCEPT ![s] = <<Fmt3(max_total_rss)>>]
    /\ stpc' = [stpc EXCEPT ![s] = "returned"]
    /\ UNCHANGED <<monitorVars, mainAlive, samplerVars, final_total, reports,
                   samplerSummary, histVars, aggVars>>

Stop(s) ==
    \/ StopSetFlag(s) \/ StopSample(s) \/ StopCompare(s)
    \/ StopWrite(s) \/ StopPrint(s)

Next ==
    \/ Start
    \/ MainEnds
    \/ Sampler
    \/ \E s \in Stoppers : Stop(s)

Spec == Init /\ [][Next]_vars

\* the sampling thread is scheduled and its sleep ends; nothing obliges
\* anybody to call stop() or the main thread to end
FairSpec == Spec /\ WF_vars(Start) /\ WF_vars(Sampler)

----------------------------------------------------------------------------
(* The aggregator on its own *)

AggInit ==
    /\ InitMonitor
    /\ aggIn \in AggInputs
    /\ aggOut = NotCalled
    /\ aggLine = NoLine

AggCall ==
    /\ ~aggOut.called
    /\ aggOut' = [called |-> TRUE] @@ get_total_rss_gb(aggIn)
    /\ UNCHANGED <<monitorVars, mainAlive, samplerVars, stopVars, outVars,
                   histVars, aggIn, aggLine>>

\* one call of log on a fresh monitor with the same answers, when it gets
\* to its print: the memory_info of line 126 and the aggregation of line
\* 135 succeed, the peak is raised (138-139), the line is printed
AggLog ==
    /\ ~aggLine.printed
    /\ aggIn.mem[Root].err = "ok"
    /\ LET r == get_total_rss_gb(aggIn) IN
          /\ ~r.raised
          /\ total_rss' = r.val
          /\ max_total_rss' = IF GT(r.val, max_total_rss) THEN r.val
                              ELSE max_total_rss
          /\ samplerSamples' = samplerSamples + 1
          /\ maxSeen' = FMax(maxSeen, r.val)
          /\ aggLine' = LogLine(aggIn.mem[Root], r.val)
    /\ reports' = reports + 1
    /\ UNCHANGED <<should_continue, interval, process, mainAlive, spc,
                   stopVars, samplerSummary, stopPrinted, sleepsAfterFlag,
                   wokeDead, lateLogs, raisedErr, aggIn, aggOut>>

AggNext == AggCall \/ AggLog

AggSpec == AggInit /\ [][AggNext]_vars

----------------------------------------------------------------------------
(* Claims *)

SamplerEnded == spc \in {"done", "crashed"}
StopsEnded == \A s \in Stoppers : stpc[s] \in {"idle", "returned", "raised"}

\* C1: the stored peak max_total_rss never decreases, whatever the
\* interleaving of log and the stop() calls
C1_PeakNeverDecreases == [][GE(max_total_rss', max_total_rss)]_vars

\* C2: once the sampling thread and every stop() call have finished,
\* max_total_rss is the maximum of all samples taken by log and by stop:
\* no higher value is lost when stop() and the loop update the peak
\* concurrently
C2_NoSampleLost ==
    (SamplerEnded /\ StopsEnded) => max_total_rss = maxSeen

\* C3: after the flag is cleared the sampling thread begins at most one
\* more sleep, and it eventually leaves the loop and terminates
C3_StopBoundedLatency ==
    /\ [](sleepsAfterFlag <= 1)
    /\ (~should_continue ~> SamplerEnded)

C3_Witness == ~should_continue /\ sleepsAfterFlag = 1 /\ spc = "done"

\* C4: once the sampling thread has woken up after the main thread ended,
\* it takes no further sample and does not raise; the liveness check it
\* makes with the main thread dead leaves the loop; and it terminates
C4_HostDeathBoundedLatency ==
    /\ [](wokeDead => spc \in {"alive", "exit", "exit_print", "done"})
    /\ [][(spc = "alive" /\ ~mainAlive /\ spc' # spc) => spc' = "exit"]_vars
    /\ ((~mainAlive /\ spc = "sleeping") ~> spc = "done")

C4_Witness ==
    /\ wokeDead /\ spc = "done" /\ should_continue
    /\ \A s \in Stoppers : stpc[s] = "idle"

\* C5: after a stop() call has returned the sampling thread never
\* executes log again
C5_NoLogAfterStopReturned == lateLogs = 0

\* C5 as amended: after a stop() call has returned the sampling thread
\* begins at most one more log, the one whose flag check came before the
\* flag was cleared
C5_AtMostOneLogAfterStop == lateLogs <= 1

C5_Witness == lateLogs = 1 /\ spc = "done" /\ reports >= 1

\* C6: after the loop exits the sampling thread takes one more sample of
\* the tree total, outside log, before it reports the peak
C6_FinalSampleTaken == spc = "done" => samplerSamples = reports + 1

\* C7: the summary line of a stop() call states a peak that is at least the
\* final sample that call took, in every interleaving with the sampling
\* thread
C7_StopPrintsOwnSample ==
    \A s \in Stoppers :
        stopPrinted[s] # <<>> => stopPrinted[s][1] >= Fmt3(final_total[s])

\* the order of the statements of stop()
StopOrder ==
    {<<"idle", "sample">>, <<"sample", "cmp">>, <<"sample", "raised">>,
     <<"cmp", "write">>, <<"cmp", "print">>, <<"write", "print">>,
     <<"print", "returned">>}

\* C8: stop() never waits for the sampling thread: whatever the sampling
\* thread is doing, a stop() that can be called or is under way can take
\* its next step, and its steps come in the order flag, final sample,
\* peak update, summary line, return
C8_StopNeverWaits ==
    /\ [](\A s \in Stoppers :
            (spc # "created" /\ stpc[s] \notin {"returned", "raised"})
                => ENABLED Stop(s))
    /\ [][\A s \in Stoppers :
            stpc'[s] # stpc[s] =>
                /\ <<stpc[s], stpc'[s]>> \in StopOrder
                /\ stpc[s] = "idle" => ~should_continue'
                /\ stpc'[s] = "returned" => stopPrinted'[s] # <<>>]_vars

C8_Witness ==
    \E s \in Stoppers : stpc[s] = "returned" /\ spc = "sleeping"

RECURSIVE SetSum(_, _)
SetSum(S, f) ==
    IF S = {} THEN 0
    ELSE LET x == CHOOSE y \in S : TRUE IN f[x].rss + SetSum(S \ {x}, f)

Descendants(parent) == {k \in Kids : IsDescendant(parent, k)}

\* v is exactly bytes / 10^9
IsGBOf(v, bytes) ==
    /\ BytesPerGB % v[2] = 0
    /\ v[1] * (BytesPerGB \div v[2]) = bytes

\* C9: for a live root and live, accessible descendants at any depth,
\* get_total_rss_gb returns the conversion of the root's resident size
\* plus the sum over all descendants, each counted once
C9_TreeAggregation ==
    (/\ aggOut.called
     /\ aggIn.mem[Root].err = "ok" /\ aggIn.enum = "ok"
     /\ \A k \in Descendants(aggIn.parent) : aggIn.mem[k].err = "ok")
    => /\ ~aggOut.raised
       /\ IsGBOf(aggOut.val,
                 aggIn.mem[Root].rss
                   + SetSum(Descendants(aggIn.parent), aggIn.mem))

C9_Witness ==
    /\ aggOut.called /\ ~aggOut.raised
    /\ aggIn.enum = "ok"
    /\ aggIn.parent[1] = Root /\ aggIn.parent[2] = 1
    /\ \A p \in Procs : aggIn.mem[p].err = "ok"
    /\ aggIn.mem[2].rss # aggIn.mem[1].rss

\* C10: descendants that have exited or are inaccessible when queried are
\* skipped, exactly those; the result is the root plus all the others,
\* also those enumerated after a failed one, and nothing is raised
C10_SkipsFailedDescendants ==
    (/\ aggOut.called
     /\ aggIn.mem[Root].err = "ok" /\ aggIn.enum = "ok"
     /\ \A k \in Descendants(aggIn.parent) :
            aggIn.mem[k].err \in {"ok"} \cup Caught
     /\ \E k \in Descendants(aggIn.parent) : aggIn.mem[k].err \in Caught)
    => /\ ~aggOut.raised
       /\ IsGBOf(aggOut.val,
                 aggIn.mem[Root].rss
                   + SetSum({k \in Descendants(aggIn.parent) :
                                aggIn.mem[k].err = "ok"}, aggIn.mem))

C10_Witness ==
    /\ aggOut.called /\ ~aggOut.raised
    /\ aggIn.mem[Root].err = "ok" /\ aggIn.enum = "ok"
    /\ Descendants(aggIn.parent) = {1, 2}
    /\ aggIn.mem[1].err \in Caught /\ aggIn.mem[2].err = "ok"

\* C11: for a root that has exited or that may not be read,
\* get_total_rss_gb returns 0 and raises nothing, whatever the rest of
\* the tree answers
C11_AbsentRootIsZero ==
    (aggOut.called /\ aggIn.mem[Root].err \in Caught)
    => (~aggOut.raised /\ aggOut.val = Zero)

C11_Witness ==
    /\ aggOut.called /\ aggOut.val = Zero /\ ~aggOut.raised
    /\ aggIn.mem[Root].err = "AccessDenied"
    /\ aggIn.parent[1] = Root /\ aggIn.mem[1].err = "ok"

\* C12: the absence of the target or of a descendant at sample time never
\* aborts the sampling loop: log does not raise NoSuchProcess or
\* AccessDenied and the sampling thread is not ended by one
C12_AbsenceNeverAbortsLoop == ~(spc = "crashed" /\ raisedErr \in Caught)

\* C13: when listing the descendants fails with process-gone or
\* access-denied, the total of that sample is zero, also when the root's
\* own memory was read just before
C13_EnumFailureIsZero ==
    (aggOut.called /\ aggIn.enum \in Caught /\ aggIn.mem[Root].err = "ok")
    => (~aggOut.raised /\ aggOut.val = Zero)

\* C13 as amended: when listing the descendants fails with process-gone
\* or access-denied after the root's own memory was read, the total of
\* that sample is the root's own resident size, converted; nothing is
\* raised
C13_EnumFailureKeepsRoot ==
    (aggOut.called /\ aggIn.enum \in Caught /\ aggIn.mem[Root].err = "ok")
    => (~aggOut.raised /\ IsGBOf(aggOut.val, aggIn.mem[Root].rss))

C13_Witness ==
    /\ aggOut.called /\ ~aggOut.raised
    /\ aggIn.enum = "NoSuchProcess" /\ aggIn.mem[Root].err = "ok"
    /\ aggIn.parent[1] = Root /\ aggIn.mem[1].err = "ok"
    /\ aggOut.val # Zero

\* every call answered: no exception other than the two the code names
Answered(in) ==
    /\ in.mem[Root].err = "ok" /\ in.enum = "ok"
    /\ \A k \in Descendants(in.parent) : in.mem[k].err # "OtherError"

\* the bytes resident in the tree
TreeBytes(in) ==
    in.mem[Root].rss
      + SetSum({k \in Descendants(in.parent) : in.mem[k].err = "ok"}, in.mem)

\* C14: bytes become gigabytes by the decimal divisor 10^9: the number of
\* thousandths shown times 10^6 is the number of bytes, for the tree total
\* of get_total_rss_gb and for the root's own value in the line of log;
\* a tree total of 1,000,000,000 bytes is 1.0 and shows as 1.000
C14_DecimalGigabytes ==
    /\ (aggOut.called /\ Answered(aggIn))
       => /\ Fmt3(aggOut.val) * 1000000 = TreeBytes(aggIn)
          /\ TreeBytes(aggIn) = 1000000000
                => (aggOut.val = <<1, 1>> /\ Fmt3(aggOut.val) = 1000)
    /\ aggLine.printed
       => /\ aggLine.rss * 1000000 = aggIn.mem[Root].rss
          /\ Answered(aggIn) => aggLine.total * 1000000 = TreeBytes(aggIn)

C14_Witness ==
    /\ aggOut.called /\ Answered(aggIn)
    /\ TreeBytes(aggIn) = 1000000000
    /\ Fmt3(aggOut.val) = 1000
    /\ aggLine.printed /\ aggLine.total = 1000

\* C15: whenever the sampling loop has ended, by the flag or by the death
\* of the main thread, the sampling thread has printed a summary line,
\* also when no sample raised the peak above 0
C15_SummaryAlwaysPrinted == spc = "done" => samplerSummary # <<>>

\* C15 as amended: when the sampling loop has ended, by the flag or by
\* the death of the main thread, the sampling thread tests the stored peak
\* once: if it is greater than 0 at that test the thread prints one
\* summary line, stating the peak as stored when the line is printed, and
\* if it is 0 at that test the thread prints no line
C15_SummaryOnlyIfPositive ==
    /\ [][(spc = "exit" /\ spc' # spc) =>
            /\ spc' = IF GT(max_total_rss, Zero) THEN "exit_print" ELSE "done"
            /\ samplerSummary' = samplerSummary]_vars
    /\ [][(spc = "exit_print" /\ spc' # spc) =>
            /\ spc' = "done"
            /\ Len(samplerSummary') = Len(samplerSummary) + 1
            /\ samplerSummary'[Len(samplerSummary')] = Fmt3(max_total_rss)]_vars
    /\ [][samplerSummary' # samplerSummary => spc = "exit_print"]_vars

C15_Witness ==
    /\ spc = "done" /\ samplerSummary = <<>> /\ max_total_rss = Zero
    /\ reports >= 1

\* the sampling thread is out of its loop
LeftLoop == spc \in {"exit", "exit_print", "done", "crashed"}

\* C16: the lifecycle is one-way: a monitor starts with the flag set and
\* the peak 0; the flag only goes from true to false, by the first
\* statement of stop(); a sampling thread
\* that has left its loop never re-enters it nor samples again
C16_OneWayLifecycle ==
    /\ [](spc = "created" => (should_continue /\ max_total_rss = Zero))
    /\ [][should_continue' # should_continue =>
            /\ should_continue
            /\ \E s \in Stoppers : stpc[s] = "idle" /\ stpc'[s] = "sample"]_vars
    /\ [][LeftLoop => /\ LeftLoop'
                      /\ samplerSamples' = samplerSamples
                      /\ reports' = reports]_vars

C16_Witness ==
    /\ ~should_continue /\ spc = "done" /\ reports >= 1
    /\ \E s \in Stoppers : stpc[s] = "returned"

\* the summary lines printed so far by stop() calls
StopLines == Cardinality({s \in Stoppers : stopPrinted[s] # <<>>})

\* stop() was called once and that call has returned
CalledOnceAndReturned ==
    \E s \in Stoppers :
        /\ stpc[s] = "returned"
        /\ \A t \in Stoppers \ {s} : stpc[t] = "idle"

\* C17: with exactly one stop() call, the summary lines are one from
\* stop() and at most one from the sampling thread: between one and two
C17_OneOrTwoSummaries ==
    /\ Len(samplerSummary) <= 1
    /\ CalledOnceAndReturned
       => /\ StopLines = 1
          /\ StopLines + Len(samplerSummary) \in 1..2

C17_Witness ==
    CalledOnceAndReturned /\ StopLines = 1 /\ Len(samplerSummary) = 1

\* C18: no step changes interval or the process handle; a step of the
\* sampling thread does not change the flag; a step of stop() changes,
\* of the monitor's fields, only the flag and the peak; the peak is
\* changed only by the assignment that follows a comparison the sample
\* won, and a comparison the sample does not win leads past it
C18_Frame ==
    /\ [][interval' = interval /\ process' = process]_vars
    /\ [][spc' # spc => should_continue' = should_continue]_vars
    /\ [][max_total_rss' # max_total_rss =>
            \/ spc = "log_write" /\ spc' = "log_print"
                 /\ max_total_rss' = total_rss
            \/ \E s \in Stoppers :
                 /\ stpc[s] = "write" /\ stpc'[s] = "print"
                 /\ max_total_rss' = final_total[s]]_vars
    /\ [][(spc = "log_cmp" /\ spc' # spc /\ ~GT(total_rss, max_total_rss))
            => (spc' = "log_print" /\ max_total_rss' = max_total_rss)]_vars
    /\ [][\A s \in Stoppers :
            (stpc[s] = "cmp" /\ stpc'[s] # stpc[s]
               /\ ~GT(final_total[s], max_total_rss))
            => (stpc'[s] = "print" /\ max_total_rss' = max_total_rss)]_vars

C18_Witness ==
    /\ spc = "log_print" /\ total_rss # Zero
    /\ GT(max_total_rss, total_rss)
    /\ samplerSamples = 2
    /\ \A s \in Stoppers : stpc[s] = "idle"

====
